---- MODULE Spec2Model ----
(***************************************************************************)
(* A model of the customer-service chatbot (DgenKing/solar): the Bun       *)
(* server of src/server.ts (rate limiter, session map, cleanup sweep and   *)
(* the POST /api/chat handler), the agent of src/agent.ts, the knowledge   *)
(* store of src/knowledge.ts and the serverless handler of                 *)
(* src/api/chat.ts.                                                        *)
(*                                                                         *)
(* Time is counted in ticks.  Strings are TLA+ strings; Len, SubSeq and    *)
(* \o act on them as on sequences of characters.                           *)
(***************************************************************************)
EXTENDS Integers, Sequences, FiniteSets, TLC

VARIABLES
  now,        \* Date.now(), in ticks
  nextSweep,  \* the time the setInterval callback fires next
  sessions,   \* the Map sessionId -> Session (a reference into objs)
  objs,       \* the Session objects: [messages, lastActive]
  rateLimit,  \* the Map ip -> [count, resetTime]
  req,        \* the fetch handler's invocations, one per slot
  admitLog,   \* history: per ip, the times of the admissions of the last window
  unswept,    \* history: the rateLimit map as it would be had no sweep run
  expired,    \* history: sessionIds a sweep found idle, not requested since
  scenario,   \* the environment of this run: what the clients and the remote do
  products,   \* knowledge.ts: let products
  faqs,       \* knowledge.ts: let faqs
  policies,   \* knowledge.ts: let policies
  query,      \* the utterance last given to the router, "" before the first
  context,    \* what autoSearchKnowledge returned for it
  contactInfo, \* knowledge.ts: let contactInfo
  files,      \* the four JSON files, as loadKnowledgeBase last read them
  search,     \* the last call of searchProducts, searchFAQs and lookupPolicy
  run,        \* the last call of runAgent: its arguments, what it sent, its result
  op          \* the last operation on the knowledge store or the agent

agentVars == <<products, faqs, policies, query, context, contactInfo, files, search, run, op>>
vars == <<now, nextSweep, sessions, objs, rateLimit, req, admitLog, unswept, expired, scenario,
          products, faqs, policies, query, context, contactInfo, files, search, run, op>>

----------------------------------------------------------------------------
(* Bounds: the configuration, scaled down, and the sizes of the model.     *)

\* CONFIG.MAX_MESSAGES_PER_SESSION (50 in src/config.ts), scaled
MAX_MESSAGES_PER_SESSION == 2
\* CONFIG.MAX_MESSAGES_PER_MINUTE (20 in src/config.ts), scaled
MAX_MESSAGES_PER_MINUTE == 2
\* CONFIG.MAX_MESSAGE_LENGTH (500 in src/config.ts), scaled
MAX_MESSAGE_LENGTH == 2
\* CONFIG.SESSION_TIMEOUT_MS (30 minutes), in ticks
SESSION_TIMEOUT_MS == 1
\* the rate-limit window (60000 ms in checkRateLimit), in ticks
RATE_WINDOW_MS == 2
\* the period of the cleanup sweep (5 minutes), in ticks
SWEEP_INTERVAL_MS == 2
\* the clock stops here
MaxTime == 4
\* the serverless handler takes no request for a session that holds this
\* many messages (it has no limit of its own)
MaxStored == 2

IPs == {"ip1", "ip2"}
SessionIds == {"s1"}
Reqs == {1, 2}
ObjIds == 1 .. (Cardinality(SessionIds) + Cardinality(Reqs))

----------------------------------------------------------------------------
(* JavaScript values.                                                      *)

Undefined == "<undefined>"

\* a value in a condition: undefined and the empty string are falsy
Truthy(v) == v # Undefined /\ v # ""

Min(a, b) == IF a < b THEN a ELSE b

\* String.prototype.slice(0, n)
Slice(s, n) == SubSeq(s, 1, Min(Len(s), n))

\* Map.prototype.set and Map.prototype.delete, on a function
MapSet(m, k, v) == [x \in DOMAIN m \cup {k} |-> IF x = k THEN v ELSE m[x]]
MapDelete(m, ks) == [x \in DOMAIN m \ ks |-> m[x]]

EmptyMap == [x \in {} |-> 0]

\* the elements of a sequence
Range(seq) == {seq[i] : i \in 1 .. Len(seq)}

\* Array.prototype.slice(0, n)
Take(seq, n) == SubSeq(seq, 1, Min(Len(seq), n))

\* the i-th character of a string
Char(s, i) == SubSeq(s, i, i)

UpperAlpha == "ABCDEFGHIJKLMNOPQRSTUVWXYZ"
LowerAlpha == "abcdefghijklmnopqrstuvwxyz"
LowerChar(c) ==
  IF \E i \in 1 .. 26 : Char(UpperAlpha, i) = c
    THEN Char(LowerAlpha, CHOOSE i \in 1 .. 26 : Char(UpperAlpha, i) = c)
    ELSE c

\* String.prototype.toLowerCase
RECURSIVE ToLowerCase(_)
ToLowerCase(s) ==
  IF Len(s) = 0 THEN ""
  ELSE LowerChar(Char(s, 1)) \o ToLowerCase(SubSeq(s, 2, Len(s)))

\* String.prototype.includes
Includes(s, k) ==
  \E i \in 1 .. (Len(s) - Len(k) + 1) : SubSeq(s, i, i + Len(k) - 1) = k

\* String.prototype.startsWith
StartsWith(s, k) == Len(k) <= Len(s) /\ SubSeq(s, 1, Len(k)) = k

\* \s
IsSpace(c) == c \in {" ", "\n", "\t"}

\* !s.trim()
IsBlank(s) == \A i \in 1 .. Len(s) : IsSpace(Char(s, i))

\* String.prototype.split(/\s+/): a run of white space separates two words,
\* and white space at either end leaves an empty word there
RECURSIVE SplitFrom(_, _, _)
SplitFrom(s, i, word) ==
  IF i > Len(s) THEN <<word>>
  ELSE IF IsSpace(Char(s, i))
    THEN IF i > 1 /\ IsSpace(Char(s, i - 1))
           THEN SplitFrom(s, i + 1, word)
           ELSE <<word>> \o SplitFrom(s, i + 1, "")
  ELSE SplitFrom(s, i + 1, word \o Char(s, i))
Split(s) == SplitFrom(s, 1, "")

\* Array.prototype.join
RECURSIVE Join(_, _)
Join(seq, sep) ==
  IF Len(seq) = 0 THEN ""
  ELSE IF Len(seq) = 1 THEN seq[1]
  ELSE seq[1] \o sep \o Join(Tail(seq), sep)

\* Array.prototype.filter(m => m.role === "user").length
UserCount(messages) ==
  Cardinality({i \in 1 .. Len(messages) : messages[i].role = "user"})

----------------------------------------------------------------------------
(* src/knowledge.ts: the knowledge store.  A price is counted in pence.    *)

Product(id, name, category, description, price, inStock, specs) ==
  [id |-> id, name |-> name, category |-> category, description |-> description,
   price |-> price, inStock |-> inStock, specs |-> specs]
FAQ(id, question, answer, keywords) ==
  [id |-> id, question |-> question, answer |-> answer, keywords |-> keywords]
Policy(id, topic, title, content) ==
  [id |-> id, topic |-> topic, title |-> title, content |-> content]

\* a product's optional specs: the entries of the object, in order
NoSpecs == [present |-> FALSE, entries |-> <<>>]
Specs(entries) == [present |-> TRUE, entries |-> entries]

\* item.f, Undefined when the item has no such field
Field(item, f) == IF f \in DOMAIN item THEN item[f] ELSE Undefined

\* searchByKeyword: the text of an item that is searched
SearchableText(item) ==
  ToLowerCase(
    Join(SelectSeq(<<Field(item, "name"), Field(item, "question"), Field(item, "title"),
                     Field(item, "description"),
                     IF "keywords" \in DOMAIN item THEN Join(item.keywords, " ")
                     ELSE Undefined>>,
                   Truthy),
         " "))

\* searchByKeyword without `if (word.length < 2) return false`
SearchByKeywordAnyLength(items, q) ==
  LET queryWords == Split(ToLowerCase(q))
  IN SelectSeq(items,
       LAMBDA item :
         LET searchableText == SearchableText(item)
         IN \E i \in 1 .. Len(queryWords) : Includes(searchableText, queryWords[i]))

\* searchByKeyword
SearchByKeyword(items, q) ==
  LET queryWords == Split(ToLowerCase(q))
  IN SelectSeq(items,
       LAMBDA item :
         LET searchableText == SearchableText(item)
         IN \E i \in 1 .. Len(queryWords) :
              Len(queryWords[i]) >= 2 /\ Includes(searchableText, queryWords[i]))

\* the limits of searchProducts (10 in src/knowledge.ts) and searchFAQs (5), scaled
MAX_PRODUCT_RESULTS == 3
MAX_FAQ_RESULTS == 2

\* searchProducts
SearchProducts(q) ==
  IF IsBlank(q) THEN <<>> ELSE Take(SearchByKeyword(products, q), MAX_PRODUCT_RESULTS)

\* searchFAQs without its slice
SearchFAQsAll(q) == IF IsBlank(q) THEN <<>> ELSE SearchByKeyword(faqs, q)

\* searchFAQs
SearchFAQs(q) ==
  IF IsBlank(q) THEN <<>> ELSE Take(SearchByKeyword(faqs, q), MAX_FAQ_RESULTS)

\* lookupPolicy: the policies it may return, in order; it returns the first
\* one, or null when there is none
LookupPolicyAll(topic) ==
  IF IsBlank(topic) THEN <<>>
  ELSE LET topicLower == ToLowerCase(topic)
           direct == SelectSeq(policies,
                       LAMBDA pol : \/ ToLowerCase(pol.topic) = topicLower
                                    \/ Includes(ToLowerCase(pol.title), topicLower))
       IN IF Len(direct) > 0 THEN direct ELSE SearchByKeyword(policies, topic)
LookupPolicy(topic) == Take(LookupPolicyAll(topic), 1)

\* the contents the four JSON files may have; NoFile is a file that is
\* missing or does not parse
OakWorktop ==
  Product("p1", "Premium Oak Worktop", "Worktops", "Solid oak kitchen worktop",
          14999, TRUE, Specs(<<<<"length", "3m">>, <<"thickness", "40mm">>>>))
OakDoor == Product("p2", "Oak Door", "Doors", "Internal oak door", 8950, FALSE, NoSpecs)
BambooFlooring ==
  Product("p3", "Bamboo Flooring", "Flooring", "Click boards", 3900, TRUE, Specs(<<>>))
OakStair == Product("p4", "Oak Stair Tread", "Stairs", "Tread in oak", 4500, TRUE, NoSpecs)
OakShelf == Product("p5", "Oak Shelf", "Shelving", "Floating shelf", 2500, TRUE, NoSpecs)

CareFAQ ==
  FAQ("f1", "How do I care for a worktop?", "Oil it twice a year.", <<"care", "oil">>)
OrderFAQ ==
  FAQ("f2", "Can I change my order?", "Yes, until it is sent.", <<"order", "change">>)
SampleFAQ == FAQ("f3", "Do you send samples?", "Yes, up to three.", <<"samples">>)

ReturnsPolicy ==
  Policy("r1", "returns", "Returns Policy", "Return it within 30 days for a refund.")
ShippingPolicy ==
  Policy("r2", "shipping", "Shipping and Delivery", "Delivery takes 3 to 5 days.")
RefundPolicy ==
  Policy("r3", "refunds", "Refunds and Returns", "Money back in 14 days.")
OldReturnsPolicy ==
  Policy("r4", "Returns", "Before 2020", "Return it within 14 days.")

\* ContactInfo, and the null of `ContactInfo | null`
Null == "<null>"
Contact ==
  [businessHours |-> "9 to 5", email |-> "help@example.com", phone |-> "0123",
   escalationTriggers |-> <<"complaint">>, handoffMessage |-> "A person will call you."]

NoFile == [ok |-> FALSE, data |-> <<>>]
File(data) == [ok |-> TRUE, data |-> data]
ProductFiles ==
  {NoFile, File(<<>>), File(<<BambooFlooring>>),
   File(<<OakWorktop, OakDoor, BambooFlooring, OakStair, OakShelf>>)}
FaqFiles == {NoFile, File(<<CareFAQ>>), File(<<CareFAQ, OrderFAQ, SampleFAQ>>)}
PolicyFiles ==
  {NoFile, File(<<ReturnsPolicy>>), File(<<ReturnsPolicy, ShippingPolicy>>),
   File(<<RefundPolicy, ReturnsPolicy, OldReturnsPolicy>>)}
ContactFiles == {NoFile, File(Contact)}

\* JSON.parse(readFileSync(path)) in its try, with the catch's value
ReadOr(file, fallback) == IF file.ok THEN file.data ELSE fallback

\* the four collections of the store
Store(p, f, l, c) == [products |-> p, faqs |-> f, policies |-> l, contactInfo |-> c]

\* loadKnowledgeBase with one try around the four reads: the first failure
\* leaves the collections not yet read as they were
LoadedInOneTry(fs, old) ==
  IF ~fs.products.ok THEN old
  ELSE IF ~fs.faqs.ok THEN [old EXCEPT !.products = fs.products.data]
  ELSE IF ~fs.policies.ok
    THEN [old EXCEPT !.products = fs.products.data, !.faqs = fs.faqs.data]
  ELSE IF ~fs.contact.ok
    THEN [old EXCEPT !.products = fs.products.data, !.faqs = fs.faqs.data,
                     !.policies = fs.policies.data]
  ELSE Store(fs.products.data, fs.faqs.data, fs.policies.data, fs.contact.data)

\* loadKnowledgeBase: the store after it, from the files fs and the store
\* before it; each collection has a try of its own
Loaded(fs, old) ==
  Store(ReadOr(fs.products, <<>>), ReadOr(fs.faqs, <<>>), ReadOr(fs.policies, <<>>),
        ReadOr(fs.contact, Null))

----------------------------------------------------------------------------
(* src/agent.ts: the router.  The glyphs of the output are written in      *)
(* ASCII here: the bullet as "*", the pound sign as "GBP", the check mark  *)
(* as "[v]" and the cross as "[x]".                                        *)

ProductKeywords ==
  <<"product", "buy", "price", "cost", "stock", "worktop", "flooring", "door",
    "stair", "oak", "walnut", "bamboo", "quartz">>
PolicyKeywords ==
  <<"return", "refund", "shipping", "delivery", "warranty", "terms", "privacy",
    "policy", "discount">>
FaqKeywords == <<"how", "what", "can i", "do you", "where", "when", "faq", "help">>

\* keywords.some(k => queryLower.includes(k))
HasKeyword(keywords, q) ==
  LET queryLower == ToLowerCase(q)
  IN \E i \in 1 .. Len(keywords) : Includes(queryLower, keywords[i])

\* two decimal digits
TwoDigits(n) == IF n < 10 THEN "0" \o ToString(n) ELSE ToString(n)

\* Number.prototype.toFixed(2), of a price in pence
ToFixed2(pence) == ToString(pence \div 100) \o "." \o TwoDigits(pence % 100)

\* `${price}`, of a price in pence
NumberString(pence) ==
  IF pence % 100 = 0 THEN ToString(pence \div 100)
  ELSE IF pence % 10 = 0
    THEN ToString(pence \div 100) \o "." \o ToString((pence % 100) \div 10)
  ELSE ToString(pence \div 100) \o "." \o TwoDigits(pence % 100)

SpecEntry(e) == e[1] \o ": " \o e[2]
ProductBlock(p) ==
  "* " \o p.name \o " (" \o p.category \o ")\n  " \o p.description
    \o "\n  Price: GBP" \o ToFixed2(p.price) \o "\n  "
    \o (IF p.inStock THEN "[v] In Stock" ELSE "[x] Out of Stock")
    \o (IF p.specs.present
          THEN "\n  Specs: " \o Join([i \in 1 .. Len(p.specs.entries) |-> SpecEntry(p.specs.entries[i])], ", ")
          ELSE "")
ProductSummary(p) == p.name \o " - GBP" \o NumberString(p.price)
FaqBlock(f) == "Q: " \o f.question \o "\nA: " \o f.answer
FaqQuestion(f) == f.question

\* the fallback of autoSearchKnowledge: search everything
SearchEverything(q) ==
  LET found == SearchProducts(q)
      questions == SearchFAQs(q)
      policy == LookupPolicy(q)
      text ==
        (IF Len(found) > 0
           THEN "PRODUCTS:\n" \o Join([i \in 1 .. Len(found) |-> ProductSummary(found[i])], ", ") \o "\n\n"
           ELSE "")
        \o (IF Len(questions) > 0
              THEN "RELATED FAQs:\n" \o Join([i \in 1 .. Len(questions) |-> FaqQuestion(questions[i])], "\n") \o "\n\n"
              ELSE "")
        \o (IF Len(policy) > 0 THEN "POLICY: " \o policy[1].title \o "\n" ELSE "")
  IN IF Truthy(text) THEN text ELSE "No relevant information found."

\* the three blocks of autoSearchKnowledge
ProductResults(results) ==
  "PRODUCT SEARCH RESULTS:\n\n" \o Join([i \in 1 .. Len(results) |-> ProductBlock(results[i])], "\n\n")
PolicyInfo(policy) == "POLICY INFO:\n\n" \o policy.title \o "\n\n" \o policy.content
FaqResults(results) == "FAQ RESULTS:\n\n" \o Join([i \in 1 .. Len(results) |-> FaqBlock(results[i])], "\n\n---\n\n")

\* autoSearchKnowledge with the policy branch before the product branch
AutoSearchKnowledgePolicyFirst(q) ==
  LET found == SearchProducts(q)
      policy == LookupPolicy(q)
      questions == SearchFAQs(q)
  IN IF HasKeyword(PolicyKeywords, q) /\ Len(policy) > 0 THEN PolicyInfo(policy[1])
     ELSE IF HasKeyword(ProductKeywords, q) /\ Len(found) > 0 THEN ProductResults(found)
     ELSE IF HasKeyword(FaqKeywords, q) /\ Len(questions) > 0 THEN FaqResults(questions)
     ELSE SearchEverything(q)

\* autoSearchKnowledge with the FAQ branch before the product branch
AutoSearchKnowledgeFaqFirst(q) ==
  LET found == SearchProducts(q)
      policy == LookupPolicy(q)
      questions == SearchFAQs(q)
  IN IF HasKeyword(FaqKeywords, q) /\ Len(questions) > 0 THEN FaqResults(questions)
     ELSE IF HasKeyword(ProductKeywords, q) /\ Len(found) > 0 THEN ProductResults(found)
     ELSE IF HasKeyword(PolicyKeywords, q) /\ Len(policy) > 0 THEN PolicyInfo(policy[1])
     ELSE SearchEverything(q)

\* autoSearchKnowledge
AutoSearchKnowledge(q) ==
  LET found == SearchProducts(q)
      policy == LookupPolicy(q)
      questions == SearchFAQs(q)
  IN IF HasKeyword(ProductKeywords, q) /\ Len(found) > 0 THEN ProductResults(found)
     ELSE IF HasKeyword(PolicyKeywords, q) /\ Len(policy) > 0 THEN PolicyInfo(policy[1])
     ELSE IF HasKeyword(FaqKeywords, q) /\ Len(questions) > 0 THEN FaqResults(questions)
     ELSE SearchEverything(q)

\* what the customers say
Utterances ==
  {"What is the price of the oak worktop and its delivery please?",
   "cost of shipping",
   "Is the walnut one under WARRANTY",
   "Do you have bamboo flooring in stock?",
   "returns",
   "How do I care for it",
   "refund please",
   "What is your shipping policy",
   "hello",
   "a b",
   "  "}

----------------------------------------------------------------------------
(* src/agent.ts: the remote call.                                          *)

\* What fetch can give back: a rejected promise (failed), or a response with
\* its ok flag, status, text and the choices of its JSON body.  A choice is
\* [hasMessage, content]; a content of Undefined is a message without one.
Choice(content) == [hasMessage |-> TRUE, content |-> content]
NoMessage == [hasMessage |-> FALSE, content |-> Undefined]
HttpOk(choices) ==
  [failed |-> FALSE, ok |-> TRUE, status |-> 200, text |-> "", choices |-> choices]
HttpError(status, text) ==
  [failed |-> FALSE, ok |-> FALSE, status |-> status, text |-> text, choices |-> <<>>]
NetworkError(text) ==
  [failed |-> TRUE, ok |-> FALSE, status |-> 0, text |-> text, choices |-> <<>>]

Responses ==
  { HttpOk(<<Choice("Yes.")>>),
    HttpOk(<<Choice("")>>),
    HttpOk(<<Choice(Undefined)>>),
    HttpOk(<<NoMessage>>),
    HttpOk(<<>>),
    HttpError(500, "busy") }

\* no response yet
NoAnswer ==
  [failed |-> FALSE, ok |-> FALSE, status |-> 0, text |-> "", choices |-> <<>>]

Returned(value) == [threw |-> FALSE, value |-> value, message |-> ""]
Thrown(message) == [threw |-> TRUE, value |-> Undefined, message |-> message]

\* callDeepSeekAPI without its `if (!message) throw`
CallDeepSeekAPINoThrow(resp) ==
  IF resp.failed THEN Thrown(resp.text)
  ELSE IF ~resp.ok
    THEN Thrown("DeepSeek API error: " \o ToString(resp.status) \o " - " \o resp.text)
  ELSE IF Len(resp.choices) = 0 \/ ~resp.choices[1].hasMessage
    THEN Returned("")
  ELSE Returned(IF Truthy(resp.choices[1].content) THEN resp.choices[1].content ELSE "")

\* callDeepSeekAPI, from the response on
CallDeepSeekAPI(resp) ==
  IF resp.failed THEN Thrown(resp.text)
  ELSE IF ~resp.ok
    THEN Thrown("DeepSeek API error: " \o ToString(resp.status) \o " - " \o resp.text)
  ELSE IF Len(resp.choices) = 0 \/ ~resp.choices[1].hasMessage
    THEN Thrown("No response from DeepSeek API")
  ELSE Returned(IF Truthy(resp.choices[1].content) THEN resp.choices[1].content ELSE "")

\* runAgent, from the await on: the AgentResponse
RunAgentResult(resp) ==
  LET r == CallDeepSeekAPI(resp)
  IN IF r.threw THEN [content |-> "", error |-> r.message]
     ELSE [content |-> r.value, error |-> Undefined]

----------------------------------------------------------------------------
(* src/agent.ts: runAgent, up to the remote call.                          *)

\* isLikelyOffTopic: the strings its patterns match, in lower case (the
\* patterns have the flag i)
OffTopicPhrases ==
  {"write me " \o a \o w : a \in {"", "a ", "an "}, w \in {"poem", "essay", "story", "song"}}
  \cup {"what" \o v \o " the " \o w :
          v \in {"'s", " is"}, w \in {"weather", "time", "news", "score"}}
  \cup {"who " \o v \o " the president" : v \in {"is", "was"}}
  \cup {"help me with " \o m \o w : m \in {"", "my "}, w \in {"homework", "code", "resume"}}
  \cup {"tell me a joke", "what do you think about", "what is the meaning of life",
        "can you hack", "give me your system prompt", "ignore previous instructions"}

\* isLikelyOffTopic
IsLikelyOffTopic(message) ==
  LET lower == ToLowerCase(message)
  IN \E phrase \in OffTopicPhrases : Includes(lower, phrase)

\* the note of the topic guard
SystemNote ==
  "[SYSTEM NOTE: This message appears to be off-topic. Stay focused on your role as a customer service chatbot. Politely redirect to relevant topics.]"

\* loadSystemPrompt: system-prompt.md, or the built-in prompt
DefaultSystemPrompt ==
  "You are a customer service chatbot. Help customers with product questions, orders, and policies. Be friendly, professional, and concise."
PromptFiles == {NoFile, File("You are the assistant of a timber shop.")}
LoadSystemPrompt(file) == ReadOr(file, DefaultSystemPrompt)

\* userContent with the note of the guard after the question
UserContentNoteLast(systemNote, userMessage, knowledgeContext) ==
  "CUSTOMER QUESTION: " \o userMessage \o "\n\n"
    \o systemNote \o (IF Truthy(systemNote) THEN "\n\n" ELSE "")
    \o (IF Truthy(knowledgeContext)
          THEN "RELEVANT KNOWLEDGE:\n" \o knowledgeContext
                 \o "\n\nPlease answer based on this information."
          ELSE "")

\* runAgent: userContent, from the note of the guard and the context of the router
UserContent(systemNote, userMessage, knowledgeContext) ==
  systemNote \o (IF Truthy(systemNote) THEN "\n\n" ELSE "")
    \o "CUSTOMER QUESTION: " \o userMessage \o "\n\n"
    \o (IF Truthy(knowledgeContext)
          THEN "RELEVANT KNOWLEDGE:\n" \o knowledgeContext
                 \o "\n\nPlease answer based on this information."
          ELSE "")

\* runAgent: the note of the guard for a message
GuardNote(userMessage) == IF IsLikelyOffTopic(userMessage) THEN SystemNote ELSE ""

\* runAgent with the user message pushed on the caller's array itself
BuildMessagesInPlace(conversationHistory, userContent) ==
  LET pushed == Append(conversationHistory, [role |-> "user", content |-> userContent])
  IN [apiMessages |-> pushed, conversationHistory |-> pushed]

\* runAgent, up to the call of callDeepSeekAPI: the array it builds from the
\* history and the content of the user message, and the caller's array after it
BuildMessages(conversationHistory, userContent) ==
  LET copied == [i \in 1 .. Len(conversationHistory) |->
                   [role |-> conversationHistory[i].role,
                    content |-> conversationHistory[i].content]]
  IN [apiMessages |-> Append(copied, [role |-> "user", content |-> userContent]),
      conversationHistory |-> conversationHistory]

\* callDeepSeekAPI: the messages of the request body
RequestMessages(systemPrompt, messages) ==
  <<[role |-> "system", content |-> systemPrompt]>> \o messages

\* what is said to the agent, and the histories it is given
AgentUtterances ==
  {"hello", "zebra", "Tell me a JOKE about oak", "What's the weather like",
   "Write me an essay on zebras", "Do you have bamboo flooring in stock?"}
Histories ==
  {<<>>,
   <<[role |-> "user", content |-> "hi"], [role |-> "assistant", content |-> "Hello."]>>,
   <<[role |-> "user", content |-> "hi"], [role |-> "assistant", content |-> "Hello."],
     [role |-> "user", content |-> "oak?"], [role |-> "assistant", content |-> "Yes."]>>}
AgentAnswers == {HttpOk(<<Choice("Yes.")>>), HttpError(500, "busy")}

\* no call yet
NoRun ==
  [userMessage |-> "", given |-> <<>>, conversationHistory |-> <<>>, sent |-> <<>>,
   calls |-> 0, response |-> [content |-> "", error |-> Undefined]]

----------------------------------------------------------------------------
(* src/server.ts: the rate limiter.                                        *)

\* checkRateLimit with `>` for `>=`
CheckRateLimitOffByOne(m, ip, t) ==
  IF ip \notin DOMAIN m \/ t > m[ip].resetTime
    THEN [allowed |-> TRUE,
          map |-> MapSet(m, ip, [count |-> 1, resetTime |-> t + RATE_WINDOW_MS])]
  ELSE IF m[ip].count > MAX_MESSAGES_PER_MINUTE
    THEN [allowed |-> FALSE, map |-> m]
  ELSE [allowed |-> TRUE, map |-> [m EXCEPT ![ip].count = @ + 1]]

\* checkRateLimit with limit.count++ before the comparison
CheckRateLimitCountsRefused(m, ip, t) ==
  IF ip \notin DOMAIN m \/ t > m[ip].resetTime
    THEN [allowed |-> TRUE,
          map |-> MapSet(m, ip, [count |-> 1, resetTime |-> t + RATE_WINDOW_MS])]
  ELSE [allowed |-> m[ip].count < MAX_MESSAGES_PER_MINUTE,
        map |-> [m EXCEPT ![ip].count = @ + 1]]

\* checkRateLimit(ip) at time t on the map m: the answer and the map after it
CheckRateLimit(m, ip, t) ==
  IF ip \notin DOMAIN m \/ t > m[ip].resetTime
    THEN [allowed |-> TRUE,
          map |-> MapSet(m, ip, [count |-> 1, resetTime |-> t + RATE_WINDOW_MS])]
  ELSE IF m[ip].count >= MAX_MESSAGES_PER_MINUTE
    THEN [allowed |-> FALSE, map |-> m]
  ELSE [allowed |-> TRUE, map |-> [m EXCEPT ![ip].count = @ + 1]]

----------------------------------------------------------------------------
(* The knowledge store, the router and runAgent as their callers see them. *)

\* the queries given to searchProducts, searchFAQs and lookupPolicy
Queries ==
  {"", "  ", "a b", "x", "OAK", "shelving", "twice", "care order samples",
   "refund please", "returns", "RETURNS", "shipping cost", "zebra"}

\* The store is ready and nothing has been asked of it.  One call is made
\* per load: the calls leave the store as it is, so a second call would
\* meet the store the first one met.
Ready == op \in {"init", "load"}

\* no call yet
NoSearch == [query |-> "", products |-> <<>>, faqs |-> <<>>, policy |-> <<>>]

\* loadKnowledgeBase; what was said of the old store is forgotten
LoadKnowledgeBase ==
  /\ scenario = "agent"
  /\ \E pf \in ProductFiles, ff \in FaqFiles, lf \in PolicyFiles, cf \in ContactFiles :
       LET fs == [products |-> pf, faqs |-> ff, policies |-> lf, contact |-> cf]
           new == Loaded(fs, Store(products, faqs, policies, contactInfo))
       IN /\ files' = fs
          /\ products' = new.products
          /\ faqs' = new.faqs
          /\ policies' = new.policies
          /\ contactInfo' = new.contactInfo
  /\ query' = ""
  /\ context' = ""
  /\ search' = NoSearch
  /\ run' = NoRun
  /\ op' = "load"
  /\ UNCHANGED <<now, nextSweep, sessions, objs, rateLimit, req, admitLog, unswept, expired, scenario>>

\* searchProducts, searchFAQs and lookupPolicy are called with one query
Search ==
  /\ scenario = "agent"
  /\ Ready
  /\ \E q \in Queries :
       search' = [query |-> q, products |-> SearchProducts(q), faqs |-> SearchFAQs(q),
                  policy |-> LookupPolicy(q)]
  /\ op' = "search"
  /\ UNCHANGED <<now, nextSweep, sessions, objs, rateLimit, req, admitLog, unswept, expired,
                 scenario, products, faqs, policies, contactInfo, files, query, context, run>>

\* the router is asked about an utterance
Ask ==
  /\ scenario = "agent"
  /\ Ready
  /\ \E q \in Utterances :
       /\ query' = q
       /\ context' = AutoSearchKnowledge(q)
  /\ op' = "ask"
  /\ UNCHANGED <<now, nextSweep, sessions, objs, rateLimit, req, admitLog, unswept, expired,
                 scenario, products, faqs, policies, contactInfo, files, search, run>>

\* runAgent(userMessage, conversationHistory), with the answer of the remote
RunAgent ==
  /\ scenario = "agent"
  /\ Ready
  /\ \E userMessage \in AgentUtterances :
     \E knowledgeContext \in {AutoSearchKnowledge(userMessage)} :
     \E userContent \in {UserContent(GuardNote(userMessage), userMessage, knowledgeContext)} :
     \E h \in Histories, pf \in PromptFiles, resp \in AgentAnswers :
       LET built == BuildMessages(h, userContent)
       IN /\ run' = [userMessage |-> userMessage, given |-> h,
                     conversationHistory |-> built.conversationHistory,
                     sent |-> RequestMessages(LoadSystemPrompt(pf), built.apiMessages),
                     calls |-> 1, response |-> RunAgentResult(resp)]
          /\ query' = userMessage
          /\ context' = knowledgeContext
  /\ op' = "run"
  /\ UNCHANGED <<now, nextSweep, sessions, objs, rateLimit, req, admitLog, unswept, expired,
                 scenario, products, faqs, policies, contactInfo, files, search>>

----------------------------------------------------------------------------
(* src/server.ts: sessions, the cleanup sweep and POST /api/chat.          *)

\* a Session object no one refers to
FreeObj == [messages |-> <<>>, lastActive |-> 0]
NoObj == 0

\* the objects still referred to by the map s or by a handler of q; the
\* others are garbage and are returned to the pool
Referenced(s, q) ==
  {s[id] : id \in DOMAIN s} \cup {q[r].sess : r \in Reqs}
Collect(o, s, q) ==
  [i \in ObjIds |-> IF i \in Referenced(s, q) THEN o[i] ELSE FreeObj]
FreshObj ==
  CHOOSE i \in ObjIds \ Referenced(sessions, req) :
    \A j \in ObjIds \ Referenced(sessions, req) : i <= j

\* the request bodies a client sends
Messages == {"hello there"}
NoBody == [malformed |-> FALSE, sessionId |-> "", message |-> ""]
Bodies ==
  {[malformed |-> FALSE, sessionId |-> id, message |-> m] :
     id \in SessionIds, m \in Messages}
  \cup {[malformed |-> FALSE, sessionId |-> "", message |-> "hello"],
        [malformed |-> FALSE, sessionId |-> "s1", message |-> ""],
        [malformed |-> TRUE, sessionId |-> "", message |-> ""]}

\* one invocation of the fetch handler: the entry point that serves it (entry:
\* "fetch" of src/server.ts or "handler" of src/api/chat.ts), the method of
\* the request, where it is (pc), its locals (ip, body,
\* message, session, userMessageCount), the utterance and the history given
\* to runAgent, what
\* the remote answered (answer), the Response it gave (status, error,
\* content) and, as history, the number of calls of the remote (calls), whether the session it found had been idle
\* for more than the timeout (late) and whether a sweep had expired the
\* sessionId since its last request (afterExpiry)
IdleReq ==
  [pc |-> "idle", ip |-> "", body |-> NoBody, message |-> "", sess |-> NoObj,
   userMessageCount |-> 0, hist |-> <<>>, status |-> 0, error |-> "",
   content |-> "", answer |-> NoAnswer, calls |-> 0, late |-> FALSE, afterExpiry |-> FALSE,
   utterance |-> "", entry |-> "", method |-> ""]

\* return new Response(...): runAgent's copy of the history is dropped
Response(q, status, error, content) ==
  [q EXCEPT !.pc = "done", !.status = status, !.error = error, !.content = content,
            !.hist = <<>>, !.late = FALSE, !.afterExpiry = FALSE]
ErrorResponse(q, status, error) == Response(q, status, error, "")

\* the field check with `&&` for `||`
MissingBoth(body) == ~Truthy(body.sessionId) /\ ~Truthy(body.message)

\* the field check of the handler: !body.sessionId || !body.message
MissingFields(body) == ~Truthy(body.sessionId) \/ ~Truthy(body.message)

\* the session-limit check with `>` for `>=`
LimitExceeded(userMessageCount) == userMessageCount > MAX_MESSAGES_PER_SESSION

\* the session-limit check of the handler
LimitReached(userMessageCount) == userMessageCount >= MAX_MESSAGES_PER_SESSION

\* lastActive refreshed before the limit check
TouchedBeforeLimit(session, userMessageCount, t) == [session EXCEPT !.lastActive = t]

\* the session after the limit check and `session.lastActive = Date.now()`,
\* which a request over the limit does not reach
Touched(session, userMessageCount, t) ==
  IF LimitReached(userMessageCount) THEN session ELSE [session EXCEPT !.lastActive = t]

\* the sweep's test with the timeout taken off twice
IsStaleTwice(session, t) ==
  session.lastActive + SESSION_TIMEOUT_MS < t - SESSION_TIMEOUT_MS

\* the sweep's test with the comparison turned round
IsStaleNewer(session, t) == session.lastActive > t - SESSION_TIMEOUT_MS

\* the sweep's test with `<=` for `<`
IsStaleOrAt(session, t) == session.lastActive <= t - SESSION_TIMEOUT_MS

\* the sweep's test of one session at time t
IsStale(session, t) == session.lastActive < t - SESSION_TIMEOUT_MS

\* the sweep's test of an entry with `>=` for `>`
IsOldOrAt(data, t) == t >= data.resetTime

\* the sweep's test of one rate-limit entry at time t
IsOld(data, t) == t > data.resetTime

\* the two pushes in the other order
StoreMessagesSwapped(messages, message, content) ==
  Append(Append(messages, [role |-> "assistant", content |-> content]),
         [role |-> "user", content |-> message])

\* the pair put in front of the history (unshift for push)
StoreMessagesInFront(messages, message, content) ==
  <<[role |-> "user", content |-> message],
    [role |-> "assistant", content |-> content]>> \o messages

\* the push of the user message left out
StoreMessagesReplyOnly(messages, message, content) ==
  Append(messages, [role |-> "assistant", content |-> content])

\* session.messages.push(user); session.messages.push(assistant)
StoreMessages(messages, message, content) ==
  Append(Append(messages, [role |-> "user", content |-> message]),
         [role |-> "assistant", content |-> content])

\* the times of admLog still within a window's reach of time t
Recent(admLog, t) ==
  [ip \in IPs |-> SelectSeq(admLog[ip], LAMBDA u : u + RATE_WINDOW_MS >= t)]

\* The environment.  In the scenario "sessions" one client address sends every
\* body and the remote gives every answer; in the scenario "rate" every client
\* address sends the same valid body, the remote answers or is unreachable, the
\* requests are served one at a time, the admissions are logged and the map
\* of the rate limiter is followed as it would be without the sweep; in the
\* scenario "nokey" DEEPSEEK_API_KEY is not set, so that the remote, sent
\* `Authorization: Bearer ` with no token, rejects every call or is
\* unreachable, and every body is valid.
Slots == IF scenario = "rate" THEN {1} ELSE Reqs
Clients == IF scenario = "rate" THEN IPs ELSE {"ip1"}
Sent ==
  IF scenario \in {"rate", "nokey"}
    THEN {[malformed |-> FALSE, sessionId |-> "s1", message |-> "hello there"]}
    ELSE Bodies
Answers ==
  IF scenario = "rate" THEN {HttpOk(<<Choice("Yes.")>>), NetworkError("fetch failed")}
  ELSE IF scenario = "nokey"
    THEN {HttpError(401, "Authentication Fails"), NetworkError("fetch failed")}
  ELSE Responses
Unswept(m, ip, t) ==
  IF scenario = "rate" THEN CheckRateLimit(m, ip, t).map ELSE m
Logged(admLog, ip, t) ==
  IF scenario = "rate" THEN [admLog EXCEPT ![ip] = Append(@, t)] ELSE admLog

\* a POST /api/chat from address ip that reached fetch
Fetched(ip) ==
  [IdleReq EXCEPT !.entry = "fetch", !.method = "POST", !.ip = ip]

\* fetch, up to `await request.json()`: the rate limiter.  A new invocation
\* takes the first free slot.
Receive(r) ==
  /\ req[r].pc = "idle"
  /\ r \in Slots
  /\ \A j \in Reqs : j < r => req[j].pc # "idle"
  /\ \E ip \in Clients, body \in Sent :
       LET c == CheckRateLimit(rateLimit, ip, now)
       IN /\ rateLimit' = c.map
          /\ unswept' = Unswept(unswept, ip, now)
          /\ IF c.allowed
               THEN /\ req' = [req EXCEPT ![r] = [Fetched(ip) EXCEPT !.pc = "body", !.body = body]]
                    /\ admitLog' = Logged(admitLog, ip, now)
               ELSE /\ req' = [req EXCEPT ![r] =
                         ErrorResponse(Fetched(ip), 429,
                                       "Rate limit exceeded. Please try again later.")]
                    /\ UNCHANGED admitLog
  /\ UNCHANGED <<now, nextSweep, sessions, objs, expired, scenario, agentVars>>

\* fetch, from the body to `await callDeepSeekAPI` inside runAgent
Handle(r) ==
  /\ req[r].pc = "body"
  /\ LET body == req[r].body
         id == body.sessionId
         message == Slice(body.message, MAX_MESSAGE_LENGTH)
         found == id \in DOMAIN sessions
         o == IF found THEN sessions[id] ELSE FreshObj
         objs1 == IF found THEN objs
                  ELSE [objs EXCEPT ![o] = [messages |-> <<>>, lastActive |-> now]]
         userMessageCount == UserCount(objs1[o].messages)
         q == [req[r] EXCEPT !.message = message, !.sess = o,
                             !.userMessageCount = userMessageCount,
                             !.late = found /\ now - objs[o].lastActive > SESSION_TIMEOUT_MS,
                             !.afterExpiry = id \in expired]
     IN IF body.malformed
          THEN /\ req' = [req EXCEPT ![r] = ErrorResponse(@, 500, "Failed to parse JSON")]
               /\ UNCHANGED <<sessions, objs, expired>>
        ELSE IF MissingFields(body)
          THEN /\ req' = [req EXCEPT ![r] = ErrorResponse(@, 400, "Missing sessionId or message")]
               /\ UNCHANGED <<sessions, objs, expired>>
        ELSE /\ sessions' = MapSet(sessions, id, o)
             /\ expired' = expired \ {id}
             /\ objs' = [objs1 EXCEPT ![o] = Touched(@, userMessageCount, now)]
             /\ IF LimitReached(userMessageCount)
                  THEN req' = [req EXCEPT ![r] =
                            ErrorResponse(q, 400,
                              "Conversation limit reached. Please contact support directly.")]
                  ELSE req' = [req EXCEPT ![r] =
                            [q EXCEPT !.pc = "remote", !.hist = objs1[o].messages,
                                      !.utterance = message, !.calls = @ + 1]]
  /\ UNCHANGED <<now, nextSweep, rateLimit, admitLog, unswept, scenario, agentVars>>

\* fetch, from the answer of the remote to the Response
Complete(r) ==
  /\ req[r].pc = "remote"
  /\ \E resp \in Answers :
       LET response == RunAgentResult(resp)
           o == req[r].sess
       IN IF Truthy(response.error)
            THEN /\ req' = [req EXCEPT ![r] =
                      ErrorResponse([@ EXCEPT !.answer = resp], 500, response.error)]
                 /\ UNCHANGED objs
            ELSE /\ objs' = [objs EXCEPT ![o].messages =
                               StoreMessages(@, req[r].message, response.content)]
                 /\ req' = [req EXCEPT ![r] =
                      Response([@ EXCEPT !.answer = resp], 200, "", response.content)]
  /\ UNCHANGED <<now, nextSweep, sessions, rateLimit, admitLog, unswept, expired, scenario, agentVars>>

\* the client has its Response: the invocation is over
Respond(r) ==
  /\ req[r].pc = "done"
  /\ req' = [req EXCEPT ![r] = IdleReq]
  /\ objs' = Collect(objs, sessions, req')
  /\ UNCHANGED <<now, nextSweep, sessions, rateLimit, admitLog, unswept, expired, scenario, agentVars>>

\* the setInterval callback
Sweep ==
  /\ now = nextSweep
  /\ nextSweep' = nextSweep + SWEEP_INTERVAL_MS
  /\ sessions' = MapDelete(sessions, {id \in DOMAIN sessions : IsStale(objs[sessions[id]], now)})
  /\ rateLimit' = MapDelete(rateLimit, {ip \in DOMAIN rateLimit : IsOld(rateLimit[ip], now)})
  /\ objs' = Collect(objs, sessions', req)
  /\ expired' = expired \cup
       {id \in DOMAIN sessions : now - objs[sessions[id]].lastActive > SESSION_TIMEOUT_MS}
  /\ UNCHANGED <<now, req, admitLog, unswept, scenario, agentVars>>

\* time passes; the sweep runs at its time
Tick ==
  /\ now < MaxTime
  /\ now < nextSweep \/ scenario = "serverless"
  /\ now' = now + 1
  /\ admitLog' = Recent(admitLog, now + 1)
  /\ UNCHANGED <<unswept, nextSweep, sessions, objs, rateLimit, req, expired, scenario, agentVars>>

----------------------------------------------------------------------------
(* src/api/chat.ts: the serverless handler.  It has a session map of its   *)
(* own, no rate limiter, no turn limit and no sweep.                       *)

Methods == {"POST", "OPTIONS", "GET"}
\* CONFIG.DEEPSEEK_API_KEY: set, or the empty string
ApiKeys == {"key", ""}

\* the keys of the environment: none where DEEPSEEK_API_KEY is not set
ConfiguredKeys == IF scenario = "nokey" THEN {""} ELSE ApiKeys

\* the key check that takes only `undefined` for a missing key
KeyUndefined(key) == key = Undefined

\* if (!CONFIG.DEEPSEEK_API_KEY)
KeyMissing(key) == ~Truthy(key)

\* what the handler gives to runAgent for a message
Given(message) == Slice(message, MAX_MESSAGE_LENGTH)

\* a request with this method that reached handler
Invoked(method) == [IdleReq EXCEPT !.entry = "handler", !.method = method]

\* handler, up to `await req.json()`
HandlerReceive(r) ==
  /\ scenario \in {"serverless", "nokey"}
  /\ req[r].pc = "idle"
  /\ \A j \in Reqs : j < r => req[j].pc # "idle"
  /\ \E method \in Methods, key \in ConfiguredKeys, body \in Sent :
       req' = [req EXCEPT ![r] =
         IF method = "OPTIONS" THEN Response(Invoked(method), 200, "", "")
         ELSE IF method # "POST"
           THEN ErrorResponse(Invoked(method), 405, "Method not allowed")
         ELSE IF KeyMissing(key)
           THEN ErrorResponse(Invoked(method), 500, "API key not configured")
         ELSE [Invoked(method) EXCEPT !.pc = "body", !.body = body]]
  /\ UNCHANGED <<now, nextSweep, sessions, objs, rateLimit, admitLog, unswept, expired, scenario,
                 agentVars>>

\* handler, from the body to `await callDeepSeekAPI` inside runAgent
HandlerHandle(r) ==
  /\ scenario = "serverless"
  /\ req[r].pc = "body"
  /\ LET body == req[r].body
         id == body.sessionId
         found == id \in DOMAIN sessions
         o == IF found THEN sessions[id] ELSE FreshObj
         objs1 == IF found THEN objs
                  ELSE [objs EXCEPT ![o] = [messages |-> <<>>, lastActive |-> now]]
     IN IF body.malformed
          THEN /\ req' = [req EXCEPT ![r] = ErrorResponse(@, 500, "Failed to parse JSON")]
               /\ UNCHANGED <<sessions, objs>>
        ELSE IF MissingFields(body)
          THEN /\ req' = [req EXCEPT ![r] = ErrorResponse(@, 400, "Missing sessionId or message")]
               /\ UNCHANGED <<sessions, objs>>
        ELSE /\ Len(objs1[o].messages) < MaxStored
             /\ sessions' = MapSet(sessions, id, o)
             /\ objs' = [objs1 EXCEPT ![o].lastActive = now]
             /\ req' = [req EXCEPT ![r] =
                       [@ EXCEPT !.pc = "remote", !.message = body.message, !.sess = o,
                                 !.hist = objs1[o].messages,
                                 !.utterance = Given(body.message), !.calls = @ + 1]]
  /\ UNCHANGED <<now, nextSweep, rateLimit, admitLog, unswept, expired, scenario, agentVars>>

\* handler, from the answer of the remote to the Response
HandlerComplete(r) ==
  /\ scenario = "serverless"
  /\ req[r].pc = "remote"
  /\ \E resp \in Answers :
       LET response == RunAgentResult(resp)
           o == req[r].sess
       IN IF Truthy(response.error)
            THEN /\ req' = [req EXCEPT ![r] =
                      ErrorResponse([@ EXCEPT !.answer = resp], 500, response.error)]
                 /\ UNCHANGED objs
            ELSE /\ objs' = [objs EXCEPT ![o].messages =
                               StoreMessages(@, req[r].message, response.content)]
                 /\ req' = [req EXCEPT ![r] =
                      Response([@ EXCEPT !.answer = resp], 200, "", response.content)]
  /\ UNCHANGED <<now, nextSweep, sessions, rateLimit, admitLog, unswept, expired, scenario, agentVars>>

InitIn(sc) ==
  /\ scenario = sc
  /\ now = 0
  /\ nextSweep = SWEEP_INTERVAL_MS
  /\ sessions = EmptyMap
  /\ objs = [i \in ObjIds |-> FreeObj]
  /\ rateLimit = EmptyMap
  /\ req = [r \in Reqs |-> IdleReq]
  /\ admitLog = [ip \in IPs |-> <<>>]
  /\ unswept = EmptyMap
  /\ expired = {}
  /\ products = <<OakWorktop, OakDoor, BambooFlooring, OakStair, OakShelf>>
  /\ faqs = <<CareFAQ, OrderFAQ, SampleFAQ>>
  /\ policies = <<ReturnsPolicy, ShippingPolicy>>
  /\ query = ""
  /\ context = ""
  /\ contactInfo = Contact
  /\ files = [products |-> File(products), faqs |-> File(faqs),
              policies |-> File(policies), contact |-> File(Contact)]
  /\ search = NoSearch
  /\ run = NoRun
  /\ op = "init"

Next ==
  \/ \E r \in Reqs : Receive(r)
  \/ \E r \in Reqs : Handle(r)
  \/ \E r \in Reqs : Complete(r)
  \/ \E r \in Reqs : Respond(r)
  \/ Sweep
  \/ Tick

NextServerless ==
  \/ \E r \in Reqs : HandlerReceive(r)
  \/ \E r \in Reqs : HandlerHandle(r)
  \/ \E r \in Reqs : HandlerComplete(r)
  \/ \E r \in Reqs : Respond(r)
  \/ Tick

\* both entry points where the key is not set: the handler never gets past
\* its key check
NextNoKey ==
  \/ \E r \in Reqs : Receive(r)
  \/ \E r \in Reqs : Handle(r)
  \/ \E r \in Reqs : Complete(r)
  \/ \E r \in Reqs : Respond(r)
  \/ \E r \in Reqs : HandlerReceive(r)
  \/ Sweep
  \/ Tick

NextAgent ==
  \/ LoadKnowledgeBase
  \/ Search
  \/ Ask
  \/ RunAgent

Init == InitIn("sessions")
InitRate == InitIn("rate")
InitAgent == InitIn("agent")
InitServerless == InitIn("serverless")
InitNoKey == InitIn("nokey")

\* the server with one client address, every body and every answer
Spec == Init /\ [][Next]_vars
\* the server with every client address and the admissions logged
SpecRate == InitRate /\ [][Next]_vars
\* the knowledge store and the router, for every file and every utterance
SpecAgent == InitAgent /\ [][NextAgent]_vars
\* the serverless handler with every method, body and answer
SpecServerless == InitServerless /\ [][NextServerless]_vars
\* the server and the handler of a deployment without DEEPSEEK_API_KEY
SpecNoKey == InitNoKey /\ [][NextNoKey]_vars

----------------------------------------------------------------------------
(* Claims about the Bun server.                                            *)

\* the user messages a session holds
UserMessages(o) == UserCount(objs[o].messages)

\* the steps of the invocation r
Served(r) == req[r].pc = "body" /\ req'[r].pc = "remote"
Completed(r) == req[r].pc = "remote" /\ req'[r].pc = "done"

\* C1: a chat request for a session whose stored user-message count is at
\* (or above) MAX_MESSAGES_PER_SESSION is answered 400 and the remote is not
\* called for it
C1_LimitRejects ==
  \A r \in Reqs :
    (req[r].sess # NoObj /\ req[r].userMessageCount >= MAX_MESSAGES_PER_SESSION)
      => (req[r].pc = "done" /\ req[r].status = 400 /\ req[r].calls = 0)

C1_Witness ==
  \E r \in Reqs :
    /\ req[r].pc = "done"
    /\ req[r].sess # NoObj
    /\ req[r].userMessageCount >= MAX_MESSAGES_PER_SESSION
    /\ req[r].status = 400

\* C2: in every reachable state the number of user messages stored in a
\* session is at most MAX_MESSAGES_PER_SESSION
C2_UserMessagesBounded ==
  \A id \in DOMAIN sessions : UserMessages(sessions[id]) <= MAX_MESSAGES_PER_SESSION

\* C3: a successful turn appends to the history of its session exactly one
\* user message followed by one assistant message and leaves the earlier
\* messages as they were; no other step changes the history of a session
C3_AppendOnePair ==
  [][\A o \in ObjIds :
       LET turns == {r \in Reqs : Completed(r) /\ req'[r].status = 200 /\ req[r].sess = o}
       IN IF turns = {}
            THEN o \in Referenced(sessions', req') => objs'[o].messages = objs[o].messages
            ELSE \E r \in turns :
                   objs'[o].messages =
                     objs[o].messages \o
                       <<[role |-> "user", content |-> req[r].message],
                         [role |-> "assistant", content |-> req'[r].content]>>]_vars

C3_Witness ==
  \E r \in Reqs :
    LET m == objs[req[r].sess].messages
    IN /\ req[r].pc = "done"
       /\ req[r].status = 200
       /\ Len(m) >= 4
       /\ m[Len(m) - 1] = [role |-> "user", content |-> req[r].message]
       /\ m[Len(m)] = [role |-> "assistant", content |-> req[r].content]

\* the remote call failed: a non-success status, or a response without a message
RemoteFailed(answer) ==
  \/ answer.failed
  \/ ~answer.ok
  \/ Len(answer.choices) = 0
  \/ ~answer.choices[1].hasMessage

\* C4: when the remote call fails, runAgent returns an empty content and a
\* non-empty error, the server answers 500 with that error text, and the
\* stored messages of every session are what they were
C4_FailureKeepsHistory ==
  [][\A r \in Reqs :
       (Completed(r) /\ RemoteFailed(req'[r].answer))
         => /\ RunAgentResult(req'[r].answer).content = ""
            /\ RunAgentResult(req'[r].answer).error \notin {Undefined, ""}
            /\ req'[r].status = 500
            /\ req'[r].error = RunAgentResult(req'[r].answer).error
            /\ \A o \in ObjIds : objs'[o].messages = objs[o].messages]_vars

C4_Witness ==
  \E r \in Reqs :
    /\ req[r].pc = "done"
    /\ req[r].answer.ok
    /\ RemoteFailed(req[r].answer)
    /\ req[r].status = 500
    /\ req[r].error = "No response from DeepSeek API"
    /\ objs[req[r].sess].messages # <<>>

\* a success status with an empty or missing answer text
EmptyAnswer(answer) ==
  /\ ~answer.failed
  /\ answer.ok
  /\ \/ Len(answer.choices) = 0
     \/ ~answer.choices[1].hasMessage
     \/ answer.choices[1].content \in {Undefined, ""}

\* C5: a success status with an empty or missing answer text makes the turn
\* fail (500, an error) and no assistant message without text is stored
C5_EmptyAnswerFails ==
  /\ \A r \in Reqs :
       (req[r].pc = "done" /\ EmptyAnswer(req[r].answer))
         => (req[r].status = 500 /\ req[r].error \notin {Undefined, ""})
  /\ \A o \in ObjIds : \A i \in 1 .. Len(objs[o].messages) :
       objs[o].messages[i].role = "assistant" => objs[o].messages[i].content # ""

\* the request passed the rate limiter, the field check and the turn limit
Passed(q) ==
  /\ q.status # 429
  /\ ~q.body.malformed
  /\ q.body.sessionId # ""
  /\ q.body.message # ""
  /\ q.userMessageCount < MAX_MESSAGES_PER_SESSION

\* C6: a request that passes the rate limiter, the field check and the turn
\* limit calls the remote exactly once; a request answered 429 or 400 never
\* calls it
C6_OneRemoteCall ==
  \A r \in Reqs :
    /\ req[r].pc = "remote" => (req[r].calls = 1 /\ Passed(req[r]))
    /\ req[r].pc = "done" => req[r].calls = (IF Passed(req[r]) THEN 1 ELSE 0)
    /\ (req[r].pc = "done" /\ req[r].status \in {400, 429}) => req[r].calls = 0

C6_Witness ==
  /\ \E r \in Reqs : req[r].pc = "done" /\ Passed(req[r]) /\ req[r].calls = 1
  /\ \E r \in Reqs : req[r].pc = "done" /\ req[r].status = 400 /\ req[r].calls = 0

\* C7: a session idle for more than SESSION_TIMEOUT_MS when the sweep runs is
\* absent from the session map after it, and the next request with its
\* sessionId is given an empty history
C7_SweptThenNew ==
  /\ \A id \in expired : id \notin DOMAIN sessions
  /\ \A r \in Reqs :
       (req[r].pc = "remote" /\ req[r].afterExpiry)
         => (req[r].hist = <<>> /\ req[r].userMessageCount = 0)

C7_Witness ==
  \E r1, r2 \in Reqs :
    /\ req[r1].pc = "done" /\ req[r1].status = 200
    /\ objs[req[r1].sess].messages # <<>>
    /\ req[r2].pc = "remote" /\ req[r2].afterExpiry
    /\ req[r2].body.sessionId = req[r1].body.sessionId
    /\ req[r2].sess # req[r1].sess

\* C8 as claimed: a request that finds a session idle for more than the
\* timeout is never given that session's stored history
C8_ExpiredWithoutSweep ==
  \A r \in Reqs : (req[r].pc = "remote" /\ req[r].late) => req[r].hist = <<>>

\* the time of the last sweep (0: none has run)
LastSweep == nextSweep - SWEEP_INTERVAL_MS

\* C8, amended: a request that finds a session idle for more than the
\* timeout is given all of its stored history, and then no sweep has run
\* since the session's idle time passed the timeout
C8_ExpiredBySweepOnly ==
  [][\A r \in Reqs :
       LET id == req[r].body.sessionId
       IN (Served(r) /\ id \in DOMAIN sessions
             /\ now - objs[sessions[id]].lastActive > SESSION_TIMEOUT_MS)
            => /\ req'[r].hist = objs[sessions[id]].messages
               /\ LastSweep - objs[sessions[id]].lastActive <= SESSION_TIMEOUT_MS]_vars

C8_Witness ==
  \E r \in Reqs : req[r].pc = "remote" /\ req[r].late /\ req[r].hist # <<>>

\* the admissions of ip at the times from..now
Admitted(ip, from) ==
  Cardinality({i \in 1 .. Len(admitLog[ip]) : admitLog[ip][i] >= from})

\* C9 as claimed: in every span of RATE_WINDOW_MS at most
\* MAX_MESSAGES_PER_MINUTE requests of one address are admitted
C9_AnySpan ==
  \A ip \in IPs : Admitted(ip, now - RATE_WINDOW_MS + 1) <= MAX_MESSAGES_PER_MINUTE

\* the admissions of ip in its running window, the one checkRateLimit opened
\* at resetTime - RATE_WINDOW_MS (0 when it has none)
InWindow(ip) ==
  IF ip \in DOMAIN rateLimit /\ now <= rateLimit[ip].resetTime
    THEN Admitted(ip, rateLimit[ip].resetTime - RATE_WINDOW_MS)
    ELSE 0

\* C9, amended: in every window of one address, which runs from the request
\* that opened it to RATE_WINDOW_MS later, at most MAX_MESSAGES_PER_MINUTE
\* requests are admitted, and a request is answered 429 exactly when its
\* address has that many admissions in its running window
C9_FixedWindow ==
  [][/\ \A ip \in IPs : InWindow(ip)' <= MAX_MESSAGES_PER_MINUTE
     /\ \A r \in Reqs :
          (req[r].pc = "idle" /\ req'[r].pc # "idle")
            => (req'[r].status = 429
                  <=> InWindow(req'[r].ip) >= MAX_MESSAGES_PER_MINUTE)]_vars

C9_Witness ==
  \E r \in Reqs :
    /\ req[r].pc = "done" /\ req[r].status = 429
    /\ InWindow(req[r].ip) = MAX_MESSAGES_PER_MINUTE
    /\ \E ip \in IPs : ip # req[r].ip /\ InWindow(ip) > 0

----------------------------------------------------------------------------
(* Claims about the router.                                                *)

\* the utterance has a product keyword and a policy keyword
BothKeywords(q) == HasKeyword(ProductKeywords, q) /\ HasKeyword(PolicyKeywords, q)

\* C10 as claimed: for an utterance with a product keyword and a policy
\* keyword the router returns the PRODUCT SEARCH RESULTS block and never the
\* POLICY INFO block, whatever the store holds
C10_ProductAlways ==
  BothKeywords(query)
    => (StartsWith(context, "PRODUCT SEARCH RESULTS:") /\ ~StartsWith(context, "POLICY INFO:"))

\* some stored product has a word of the utterance, of two characters or
\* more, in its name or description
SomeProductMatches(q) ==
  /\ ~IsBlank(q)
  /\ \E i \in 1 .. Len(products) : \E w \in Range(Split(ToLowerCase(q))) :
       /\ Len(w) >= 2
       /\ \/ Includes(ToLowerCase(products[i].name), w)
          \/ Includes(ToLowerCase(products[i].description), w)

\* C10, amended: for an utterance with a product keyword and a policy keyword
\* the router returns the PRODUCT SEARCH RESULTS block exactly when some
\* stored product matches the utterance; when none does and lookupPolicy
\* finds a policy, it returns the POLICY INFO block
C10_ProductIfFound ==
  BothKeywords(query)
    => /\ StartsWith(context, "PRODUCT SEARCH RESULTS:") <=> SomeProductMatches(query)
       /\ (~SomeProductMatches(query) /\ Len(LookupPolicy(query)) > 0)
            => StartsWith(context, "POLICY INFO:")

C10_Witness ==
  /\ BothKeywords(query)
  /\ StartsWith(context, "PRODUCT SEARCH RESULTS:")
  /\ Len(LookupPolicy(query)) > 0

\* C20: a turn that is accepted gives to the agent, and stores in the history
\* of its session as the user message, one string: the submitted message cut
\* to its first MAX_MESSAGE_LENGTH characters
C20_SameCutMessage ==
  [][\A r \in Reqs :
       (Completed(r) /\ req'[r].status = 200)
         => LET cut == Slice(req[r].body.message, MAX_MESSAGE_LENGTH)
                m == objs'[req[r].sess].messages
            IN /\ req[r].utterance = cut
               /\ m[Len(m) - 1] = [role |-> "user", content |-> cut]]_vars

----------------------------------------------------------------------------
(* Claims about runAgent.                                                  *)

\* the user message runAgent sent, the last of the array
UserTurn == run.sent[Len(run.sent)]

\* the router found no record for the utterance in any collection
NothingFound(q) ==
  SearchProducts(q) = <<>> /\ SearchFAQs(q) = <<>> /\ LookupPolicy(q) = <<>>

\* C11: the user message runAgent sends has the RELEVANT KNOWLEDGE section
\* and the instruction to answer from it exactly when the router found a
\* record for the utterance
C11_SectionOnlyWhenFound ==
  op = "run"
    => LET section == Includes(UserTurn.content, "RELEVANT KNOWLEDGE:")
           instruction ==
             Includes(UserTurn.content, "Please answer based on this information.")
       IN /\ NothingFound(run.userMessage) => (~section /\ ~instruction)
          /\ (section \/ instruction) => ~NothingFound(run.userMessage)

\* the utterances of AgentUtterances that the topic guard is to flag
Flagged ==
  {"Tell me a JOKE about oak", "What's the weather like", "Write me an essay on zebras"}

\* C12: for a flagged and for an unflagged utterance runAgent sends the
\* system prompt, the history and one user message, and calls the remote
\* once; the note of the guard is in no message of its own, and the user
\* message of a flagged turn, and of no other, begins with the note, the
\* blank line and then CUSTOMER QUESTION:
C12_GuardAnnotatesOnly ==
  op = "run"
    => /\ Len(run.sent) = Len(run.given) + 2
       /\ run.calls = 1
       /\ \A i \in 1 .. Len(run.sent) - 1 : ~Includes(run.sent[i].content, "[SYSTEM NOTE")
       /\ UserTurn.role = "user"
       /\ IF run.userMessage \in Flagged
            THEN StartsWith(UserTurn.content,
                            SystemNote \o "\n\nCUSTOMER QUESTION: " \o run.userMessage)
            ELSE StartsWith(UserTurn.content, "CUSTOMER QUESTION: " \o run.userMessage)

C12_Witness ==
  /\ op = "run"
  /\ run.userMessage = "Tell me a JOKE about oak"
  /\ Len(run.given) = 2
  /\ Len(run.sent) = 4
  /\ StartsWith(UserTurn.content, SystemNote)
  /\ run.response.content = "Yes."

\* C13: the array runAgent sends is the system prompt, then the messages of
\* the history in their order with role and content as they were, then one
\* user message; the caller's array is after the call what it was before,
\* whether the remote answers or fails
C13_HistoryCopiedNotChanged ==
  op = "run"
    => /\ run.sent[1].role = "system"
       /\ run.sent[1].content \in {LoadSystemPrompt(pf) : pf \in PromptFiles}
       /\ SubSeq(run.sent, 2, Len(run.sent) - 1) = run.given
       /\ UserTurn.role = "user"
       /\ Includes(UserTurn.content, "CUSTOMER QUESTION: " \o run.userMessage)
       /\ run.conversationHistory = run.given

C13_Witness ==
  /\ op = "run"
  /\ Len(run.given) = 4
  /\ Len(run.sent) = 6
  /\ run.conversationHistory = run.given
  /\ run.response.error = "DeepSeek API error: 500 - busy"

----------------------------------------------------------------------------
(* Claims about the knowledge store.                                       *)

\* the words of a query that count: lower case, of two characters or more
Words(q) == {w \in Range(Split(ToLowerCase(q))) : Len(w) >= 2}

\* some word of the query q is in the text t, whatever the case
InText(t, q) == \E w \in Words(q) : Includes(ToLowerCase(t), w)

\* C14: a query whose words are all shorter than 2 characters (the empty and
\* the blank query too) gets the empty list from searchProducts and from
\* searchFAQs, whatever the store holds
C14_ShortWordsFindNothing ==
  (op = "search" /\ \A w \in Range(Split(search.query)) : Len(w) < 2)
    => (search.products = <<>> /\ search.faqs = <<>>)

C14_Witness ==
  /\ op = "search"
  /\ search.query = "a b"
  /\ \E i \in 1 .. Len(products) : Includes(ToLowerCase(products[i].name), "a")
  /\ \E i \in 1 .. Len(faqs) : Includes(ToLowerCase(faqs[i].question), "a")
  /\ search.products = <<>>
  /\ search.faqs = <<>>

\* C15: for a non-blank query searchProducts returns the first
\* MAX_PRODUCT_RESULTS, in store order, of the products that have a word of
\* the query in their name, category or description
C15_ProductsByNameCategoryDescription ==
  (op = "search" /\ ~IsBlank(search.query))
    => search.products =
         Take(SelectSeq(products,
                LAMBDA p : \/ InText(p.name, search.query)
                           \/ InText(p.category, search.query)
                           \/ InText(p.description, search.query)),
              MAX_PRODUCT_RESULTS)

\* C16 as claimed: for a non-blank query searchFAQs returns the first
\* MAX_FAQ_RESULTS, in store order, of the entries that have a word of the
\* query in their question, answer or keyword tags
C16_FaqsByQuestionAnswerKeywords ==
  (op = "search" /\ ~IsBlank(search.query))
    => search.faqs =
         Take(SelectSeq(faqs,
                LAMBDA f : \/ InText(f.question, search.query)
                           \/ InText(f.answer, search.query)
                           \/ \E k \in Range(f.keywords) : InText(k, search.query)),
              MAX_FAQ_RESULTS)

\* C16, amended: for a non-blank query searchFAQs returns the first
\* MAX_FAQ_RESULTS, in store order, of the entries that have a word of the
\* query in their question or keyword tags; the answer is not searched
C16_FaqsByQuestionKeywords ==
  (op = "search" /\ ~IsBlank(search.query))
    => search.faqs =
         Take(SelectSeq(faqs,
                LAMBDA f : \/ InText(f.question, search.query)
                           \/ \E k \in Range(f.keywords) : InText(k, search.query)),
              MAX_FAQ_RESULTS)

C16_Witness ==
  /\ op = "search"
  /\ Len(faqs) > MAX_FAQ_RESULTS
  /\ Len(search.faqs) = MAX_FAQ_RESULTS
  /\ search.faqs = Take(faqs, MAX_FAQ_RESULTS)

\* the policies whose topic tag is the topic, whatever the case
WithTopic(topic) ==
  SelectSeq(policies, LAMBDA pol : ToLowerCase(pol.topic) = ToLowerCase(topic))

\* C17: for a topic that is the topic tag of a stored policy, whatever the
\* case, lookupPolicy returns the first policy in store order with that tag
C17_FirstWithTopic ==
  (op = "search" /\ Len(WithTopic(search.query)) > 0)
    => search.policy = <<WithTopic(search.query)[1]>>

\* no policy has the topic as its tag or in its title
NoDirectMatch(topic) ==
  \A i \in 1 .. Len(policies) :
    /\ ToLowerCase(policies[i].topic) # ToLowerCase(topic)
    /\ ~Includes(ToLowerCase(policies[i].title), ToLowerCase(topic))

\* C18: for a non-blank topic that matches no policy directly lookupPolicy
\* returns the first policy in store order that has a word of the topic in
\* its title or content, and null only if there is none
C18_FallbackByTitleOrContent ==
  (op = "search" /\ ~IsBlank(search.query) /\ NoDirectMatch(search.query))
    => search.policy =
         Take(SelectSeq(policies,
                LAMBDA pol : \/ InText(pol.title, search.query)
                             \/ InText(pol.content, search.query)),
              1)

\* C19: after loadKnowledgeBase, run for the first time or again, each
\* collection whose file is missing or malformed is empty (the contact
\* information null) and each collection whose file is readable holds the
\* records of the file
C19_EachCollectionAlone ==
  /\ products = (IF files.products.ok THEN files.products.data ELSE <<>>)
  /\ faqs = (IF files.faqs.ok THEN files.faqs.data ELSE <<>>)
  /\ policies = (IF files.policies.ok THEN files.policies.data ELSE <<>>)
  /\ contactInfo = (IF files.contact.ok THEN files.contact.data ELSE Null)

C19_Witness ==
  /\ op = "load"
  /\ ~files.products.ok /\ products = <<>>
  /\ files.faqs.ok /\ faqs # <<>>
  /\ ~files.policies.ok /\ policies = <<>>
  /\ files.contact.ok /\ contactInfo = Contact

\* the turns stored in any session, in the map or held by a handler
StoredTurns == {o \in ObjIds : objs[o].messages # <<>>}

IsPrefix(h, m) == Len(h) <= Len(m) /\ SubSeq(m, 1, Len(h)) = h

\* C22: nothing orders two requests of one session: the history a request
\* sent to the remote is the beginning of what the session holds when the
\* answer arrives, not always the whole of it, and the pair of the turn is
\* pushed after whatever the session holds then
C22_AppendedAfterLaterTurns ==
  [][\A r \in Reqs :
       (req[r].pc = "remote" /\ req'[r].pc = "done" /\ req'[r].status = 200) =>
         LET stored == objs[req[r].sess].messages
         IN /\ IsPrefix(req[r].hist, stored)
            /\ objs'[req[r].sess].messages =
                 stored \o <<[role |-> "user", content |-> req[r].message],
                             [role |-> "assistant", content |-> req'[r].content]>>]_vars

\* two answered requests of one session were given the same history, and the
\* session holds the pairs of both: the later reply was made without the turn
\* stored just before it
C22_Witness ==
  \E r, q \in Reqs :
    /\ r # q
    /\ req[r].pc = "done" /\ req[r].status = 200
    /\ req[q].pc = "done" /\ req[q].status = 200
    /\ req[r].sess = req[q].sess
    /\ req[r].userMessageCount = 0 /\ req[q].userMessageCount = 0
    /\ req[r].calls = 1 /\ req[q].calls = 1
    /\ LET stored == objs[req[r].sess].messages
       IN /\ Len(stored) = 4
          /\ stored[2].content = req[r].content
          /\ stored[4].content = req[q].content
          /\ req[r].content # req[q].content

\* the conditions of the three branches of the router for utterance q
ProductBranch(q) == HasKeyword(ProductKeywords, q) /\ Len(SearchProducts(q)) > 0
PolicyBranch(q) == HasKeyword(PolicyKeywords, q) /\ Len(LookupPolicy(q)) > 0
FaqBranch(q) == HasKeyword(FaqKeywords, q) /\ Len(SearchFAQs(q)) > 0

\* C23: the router returns the block of the first of product, policy, FAQ
\* whose keyword is in the utterance and whose search finds something, and
\* otherwise the summary of all three searches, which is the "no relevant
\* information" value exactly when all three find nothing
C23_FirstMatchDispatch ==
  op = "ask" =>
    LET product == ProductBranch(query)
        policy == ~product /\ PolicyBranch(query)
        faq == ~product /\ ~policy /\ FaqBranch(query)
        combined == ~product /\ ~policy /\ ~faq
    IN /\ StartsWith(context, "PRODUCT SEARCH RESULTS:\n\n") <=> product
       /\ StartsWith(context, "POLICY INFO:\n\n") <=> policy
       /\ StartsWith(context, "FAQ RESULTS:\n\n") <=> faq
       /\ product => context = ProductResults(SearchProducts(query))
       /\ policy => context = PolicyInfo(LookupPolicy(query)[1])
       /\ faq => context = FaqResults(SearchFAQs(query))
       /\ combined => context = SearchEverything(query)
       /\ context = "No relevant information found."
            <=> /\ combined
                /\ SearchProducts(query) = <<>>
                /\ SearchFAQs(query) = <<>>
                /\ LookupPolicy(query) = <<>>

\* an utterance with a product keyword and a FAQ keyword for which no product
\* is found is answered with the FAQ block
C23_Witness ==
  /\ op = "ask"
  /\ HasKeyword(ProductKeywords, query)
  /\ HasKeyword(FaqKeywords, query)
  /\ products # <<>>
  /\ StartsWith(context, "FAQ RESULTS:\n\n")

\* C24: a request of an address with no entry, or with an entry whose
\* resetTime has passed, is admitted and opens a window with count 1 and
\* resetTime one window after now; a request within the window is admitted
\* and counted while the count is below MAX_MESSAGES_PER_MINUTE, and is
\* refused after that, with the entry as it was and no session touched; the
\* entries of the other addresses stay as they are and every count is
\* between 1 and MAX_MESSAGES_PER_MINUTE
C24_FixedWindowEntries ==
  [][/\ \A ip \in DOMAIN rateLimit' :
          rateLimit'[ip].count \in 1 .. MAX_MESSAGES_PER_MINUTE
     /\ \A r \in Reqs :
          (req[r].pc = "idle" /\ req'[r].pc # "idle") =>
            LET ip == req'[r].ip
                admitted == req'[r].pc = "body"
                refused == req'[r].pc = "done" /\ req'[r].status = 429
                opens == ip \notin DOMAIN rateLimit \/ now > rateLimit[ip].resetTime
            IN /\ admitted \/ refused
               /\ ip \in DOMAIN rateLimit'
               /\ \A other \in IPs \ {ip} :
                    /\ other \in DOMAIN rateLimit' <=> other \in DOMAIN rateLimit
                    /\ other \in DOMAIN rateLimit => rateLimit'[other] = rateLimit[other]
               /\ opens =>
                    /\ admitted
                    /\ rateLimit'[ip] = [count |-> 1, resetTime |-> now + RATE_WINDOW_MS]
               /\ (~opens /\ rateLimit[ip].count < MAX_MESSAGES_PER_MINUTE) =>
                    /\ admitted
                    /\ rateLimit'[ip] = [count |-> rateLimit[ip].count + 1,
                                         resetTime |-> rateLimit[ip].resetTime]
               /\ (~opens /\ rateLimit[ip].count >= MAX_MESSAGES_PER_MINUTE) =>
                    /\ refused
                    /\ rateLimit'[ip] = rateLimit[ip]
               /\ refused =>
                    /\ req'[r].sess = NoObj
                    /\ sessions' = sessions
                    /\ objs' = objs]_vars

\* a request was refused within a full window, and a session is stored
C24_Witness ==
  \E r \in Reqs :
    /\ req[r].pc = "done" /\ req[r].status = 429
    /\ rateLimit[req[r].ip].count = MAX_MESSAGES_PER_MINUTE
    /\ now <= rateLimit[req[r].ip].resetTime
    /\ now > rateLimit[req[r].ip].resetTime - RATE_WINDOW_MS
    /\ DOMAIN sessions # {}

\* a step of the cleanup sweep
SweepStep == nextSweep' # nextSweep

\* C25: a run of the sweep removes the sessions whose lastActive is before
\* now - SESSION_TIMEOUT_MS and the rate-limit entries whose resetTime is
\* before now, and nothing else; what stays is the same session object with
\* the same messages and lastActive, the same count and resetTime
C25_SweepRemovesExactly ==
  [][SweepStep =>
       /\ DOMAIN sessions' =
            {id \in DOMAIN sessions :
               ~(objs[sessions[id]].lastActive < now - SESSION_TIMEOUT_MS)}
       /\ \A id \in DOMAIN sessions' :
            /\ sessions'[id] = sessions[id]
            /\ objs'[sessions'[id]] = objs[sessions[id]]
       /\ DOMAIN rateLimit' =
            {ip \in DOMAIN rateLimit : ~(now > rateLimit[ip].resetTime)}
       /\ \A ip \in DOMAIN rateLimit' : rateLimit'[ip] = rateLimit[ip]]_vars

\* the sweep has run at a time when one session had been idle for exactly
\* the timeout and one rate-limit window was in its last instant: both are
\* still there
C25_Witness ==
  /\ nextSweep = now + SWEEP_INTERVAL_MS
  /\ \E id \in DOMAIN sessions :
       /\ objs[sessions[id]].lastActive = now - SESSION_TIMEOUT_MS
       /\ objs[sessions[id]].messages # <<>>
  /\ \E ip \in DOMAIN rateLimit : rateLimit[ip].resetTime = now

\* C26: the history of every session, in the map or held by a handler, has
\* even length, a user message at every odd place and an assistant message at
\* every even place
C26_HistoryAlternates ==
  \A o \in ObjIds :
    LET stored == objs[o].messages
    IN /\ Len(stored) % 2 = 0
       /\ \A i \in 1 .. Len(stored) :
            stored[i].role = (IF i % 2 = 1 THEN "user" ELSE "assistant")

\* two requests of one session were in flight together and both have stored
\* their pair, with a sweep run in between
C26_Witness ==
  /\ nextSweep > SWEEP_INTERVAL_MS
  /\ \E r, q \in Reqs :
       /\ r # q
       /\ req[r].pc = "done" /\ req[r].status = 200
       /\ req[q].pc = "done" /\ req[q].status = 200
       /\ req[r].sess = req[q].sess
       /\ req[r].userMessageCount = req[q].userMessageCount
       /\ Len(objs[req[r].sess].messages) = 4

\* C27: when a request is answered with success the session map has, under
\* the sessionId of the request, the session that holds the pair of the turn
C27_AnsweredTurnInMap ==
  [][\A r \in Reqs :
       (req[r].pc = "remote" /\ req'[r].pc = "done" /\ req'[r].status = 200) =>
         /\ req[r].body.sessionId \in DOMAIN sessions'
         /\ sessions'[req[r].body.sessionId] = req[r].sess]_vars

\* request r is answered that its conversation has reached the limit
LimitRejects(r) ==
  /\ req[r].pc = "body"
  /\ req'[r].pc = "done"
  /\ req'[r].status = 400
  /\ req'[r].error = "Conversation limit reached. Please contact support directly."

\* C28: a request refused at the turn limit leaves the session map and the
\* session, messages and lastActive, as they were, and a sweep removes a
\* session at its limit once lastActive, which only an accepted request sets,
\* is more than SESSION_TIMEOUT_MS back
C28_RejectionLeavesSession ==
  [][/\ \A r \in Reqs :
          LimitRejects(r) =>
            /\ sessions' = sessions
            /\ objs' = objs
            /\ req'[r].sess = sessions[req[r].body.sessionId]
     /\ SweepStep =>
          \A id \in DOMAIN sessions :
            (/\ UserCount(objs[sessions[id]].messages) >= MAX_MESSAGES_PER_SESSION
             /\ objs[sessions[id]].lastActive < now - SESSION_TIMEOUT_MS)
              => id \notin DOMAIN sessions']_vars

\* a request was refused at the limit and the sweep has removed its session
\* while the handler still held it
C28_Witness ==
  \E r \in Reqs :
    /\ req[r].pc = "done"
    /\ req[r].error = "Conversation limit reached. Please contact support directly."
    /\ req[r].body.sessionId \notin DOMAIN sessions
    /\ UserCount(objs[req[r].sess].messages) = MAX_MESSAGES_PER_SESSION
    /\ objs[req[r].sess].lastActive < now - SESSION_TIMEOUT_MS

\* C29: every request is admitted or refused as it would have been had no
\* sweep ever run, and where the swept map still has the entry of an address
\* it is the entry of the map without sweeps
C29_SweepKeepsOutcomes ==
  [][/\ \A r \in Reqs :
          (req[r].pc = "idle" /\ req'[r].pc # "idle") =>
            (req'[r].status # 429 <=> CheckRateLimit(unswept, req'[r].ip, now).allowed)
     /\ \A ip \in DOMAIN rateLimit' :
          ip \in DOMAIN unswept' /\ unswept'[ip] = rateLimit'[ip]]_vars

\* the sweep has removed the full entry of one address, which the map
\* without sweeps still has, and a request of the other address is refused
C29_Witness ==
  /\ scenario = "rate"
  /\ \E ip \in DOMAIN unswept :
       /\ ip \notin DOMAIN rateLimit
       /\ unswept[ip].count = MAX_MESSAGES_PER_MINUTE
  /\ \E r \in Reqs :
       /\ req[r].pc = "done" /\ req[r].status = 429
       /\ req[r].ip \in DOMAIN rateLimit

\* the stored policies whose topic tag is a word of the utterance q
TaggedInUtterance(q) ==
  {i \in 1 .. Len(policies) :
     ToLowerCase(policies[i].topic) \in Range(Split(ToLowerCase(q)))}

\* C30: when the router returns a POLICY INFO block for an utterance that has
\* the topic tag of exactly one stored policy among its words, the block is
\* the block of that policy
C30_PolicyOfTheTag ==
  (/\ op = "ask"
   /\ StartsWith(context, "POLICY INFO:\n\n")
   /\ Cardinality(TaggedInUtterance(query)) = 1)
    => \E i \in TaggedInUtterance(query) : context = PolicyInfo(policies[i])

====
